---- MODULE Spec2Model ----
(***************************************************************************)
(* tf-annotations (src/main.rs): walk root/<label>/<image>, probe each     *)
(* image's size in parallel per label directory, classify the label,       *)
(* compute a centred bounding box and export tensorflow.csv.               *)
(*                                                                         *)
(* Number representation.  The checker's integers are 32-bit signed, so a  *)
(* u32 value v is written v when v < 2^31 and v - 2^32 otherwise (its      *)
(* two's-complement representative).  Addition and subtraction modulo 2^32 *)
(* are then ordinary addition and subtraction of representatives; only     *)
(* comparison, halving and printing must look at the sign.                 *)
(***************************************************************************)
EXTENDS Integers, Sequences, FiniteSets, TLC

\* Option: every value is a tuple, so that any two can be compared
None == <<"None">>

Some(v) == <<"Some", v>>

IsSome(o) == o[1] = "Some"

Unwrap(o) == o[2]

(***************************************************************************)
(* u32 arithmetic                                                          *)
(***************************************************************************)
\* u32::MAX = 4294967295, as a representative
U32_MAX == 0 - 1

\* a <= b on u32 values
U32Le(a, b) == IF (a < 0) = (b < 0) THEN a <= b ELSE a >= 0

\* v / 2 on a u32 value (logical shift right by one)
U32Half(v) == IF v >= 0 THEN v \div 2 ELSE ((v \div 2) + 1073741824) + 1073741824

\* a - b leaves the range 0..u32::MAX (a, b u32 values)
SubUnderflows(a, b) == ~U32Le(b, a)

\* a + b leaves the range 0..u32::MAX (a a u32 value, 0 <= b < 2^31)
AddOverflows(a, b) == a < 0 /\ a + b >= 0

\* u32::to_string
U32ToString(v) ==
    IF v >= 0 THEN ToString(v)
    ELSE LET u == (v + 1147483648) + 1000000000   \* v + 2^31, in 0..2^31-1
             \* v + 2^32 = u + 2147483648 = hi * 10^9 + lo
             s == (u % 1000000000) + 147483648
             hi == (u \div 1000000000) + 2 + (s \div 1000000000)
             lo == s % 1000000000
             pad == CASE lo >= 100000000 -> ""
                      [] lo >= 10000000 -> "0"
                      [] lo >= 1000000 -> "00"
                      [] lo >= 100000 -> "000"
                      [] lo >= 10000 -> "0000"
                      [] lo >= 1000 -> "00000"
                      [] lo >= 100 -> "000000"
                      [] lo >= 10 -> "0000000"
                      [] OTHER -> "00000000"
         IN ToString(hi) \o pad \o ToString(lo)

(***************************************************************************)
(* f32 arithmetic (IEEE 754 binary32, round to nearest, ties to even).     *)
(* A positive finite f32 is [m, e], value m * 2^e, 2^23 <= m < 2^24; zero  *)
(* is [m |-> 0, e |-> 0].                                                  *)
(***************************************************************************)
\* significand precision of f32, in bits
F32_MANTISSA_DIGITS == 24

F32Hidden == 2 ^ (F32_MANTISSA_DIGITS - 1)

F32Limit == 2 ^ F32_MANTISSA_DIGITS

F32Zero == [m |-> 0, e |-> 0]

\* number of significant bits of n, 0 < n < 2^31
BitLen(n) == CHOOSE k \in 1..31 : n \div (2 ^ (k - 1)) = 1

\* the f32 nearest to (q + r/d) * 2^e, ties to even, where 2^23 <= q < 2^24,
\* 0 <= r < d and twice_r = 2 * r
F32Round(q, twice_r, d, e) ==
    LET up == twice_r > d \/ (twice_r = d /\ q % 2 = 1)
        q1 == IF up THEN q + 1 ELSE q
    IN IF q1 = F32Limit THEN [m |-> F32Hidden, e |-> e + 1] ELSE [m |-> q1, e |-> e]

\* `n as f32`, n a u32 value below 2^31
U32ToF32(n) ==
    IF n = 0 THEN F32Zero
    ELSE LET k == BitLen(n)
         IN IF k <= F32_MANTISSA_DIGITS
            THEN [m |-> n * 2 ^ (F32_MANTISSA_DIGITS - k), e |-> k - F32_MANTISSA_DIGITS]
            ELSE LET s == k - F32_MANTISSA_DIGITS
                 IN F32Round(n \div 2 ^ s, 2 * (n % 2 ^ s), 2 ^ s, s)

RECURSIVE DivShift(_, _, _)
\* least t with (p * 2^t) div d >= 2^23
DivShift(p, d, t) == IF (p * 2 ^ t) \div d >= F32Hidden THEN t ELSE DivShift(p, d, t + 1)

\* p as f32 / d as f32, for integers 0 <= p < 2^8, 0 < d < 2^7 (exactly representable)
F32DivSmall(p, d) ==
    IF p = 0 THEN F32Zero
    ELSE LET t == DivShift(p, d, 0)
             n == p * 2 ^ t
         IN F32Round(n \div d, 2 * (n % d), d, 0 - t)

\* a * b
F32Mul(a, b) ==
    IF a.m = 0 \/ b.m = 0 THEN F32Zero
    ELSE LET a1 == a.m \div 4096
             a0 == a.m % 4096
             b1 == b.m \div 4096
             b0 == b.m % 4096
             mid == a1 * b0 + a0 * b1
             losum == (mid % 4096) * 4096 + a0 * b0
             lo == losum % F32Limit
             hi == a1 * b1 + (mid \div 4096) + (losum \div F32Limit)
             \* a.m * b.m = hi * 2^24 + lo, 2^22 <= hi < 2^24
         IN IF hi >= F32Hidden
            THEN F32Round(hi, 2 * lo, F32Limit, a.e + b.e + F32_MANTISSA_DIGITS)
            ELSE F32Round(2 * hi + (lo \div F32Hidden), 2 * (lo % F32Hidden),
                          F32Hidden, a.e + b.e + F32_MANTISSA_DIGITS - 1)

\* `x as u32`: truncation toward zero, saturating at u32::MAX
F32ToU32(x) ==
    IF x.m = 0 THEN 0
    ELSE IF x.e >= 9 THEN U32_MAX
    ELSE IF x.e = 8 THEN (x.m - F32Limit) * 256
    ELSE IF x.e >= 0 THEN x.m * 2 ^ x.e
    ELSE IF 0 - x.e >= F32_MANTISSA_DIGITS THEN 0
    ELSE x.m \div 2 ^ (0 - x.e)

(***************************************************************************)
(* calculate_bounding_box::<PERCENT>(width, height).  The two subtractions *)
(* and two additions are unchecked u32 arithmetic: with overflow checks    *)
(* (debug profile) an out-of-range result panics, without them (release    *)
(* profile) it wraps modulo 2^32.  overflow_checks is the build's setting;  *)
(* each call is taken under either.                                        *)
(***************************************************************************)
BoxPanic == [panicked |-> TRUE, box |-> <<>>]

BoxOk(xmin, ymin, xmax, ymax) == [panicked |-> FALSE, box |-> <<xmin, ymin, xmax, ymax>>]

\* (width as f32 * (PERCENT as f32 / 100.0)) as u32
ScaledSide(PERCENT, side) == F32ToU32(F32Mul(U32ToF32(side), F32DivSmall(PERCENT, 100)))

\* calculate_bounding_box with h taken from width
calculate_bounding_box_SwappedSides(PERCENT, width, height, overflow_checks) ==
    LET x_center == U32Half(width)
        y_center == U32Half(height)
        w == ScaledSide(PERCENT, width)
        h == ScaledSide(PERCENT, width)
        xmin == x_center - U32Half(w)
        ymin == y_center - U32Half(h)
        xmax == xmin + w
        ymax == ymin + h
    IN IF overflow_checks /\ ( \/ SubUnderflows(x_center, U32Half(w))
                               \/ SubUnderflows(y_center, U32Half(h))
                               \/ AddOverflows(xmin, w)
                               \/ AddOverflows(ymin, h) )
       THEN BoxPanic
       ELSE BoxOk(xmin, ymin, xmax, ymax)

calculate_bounding_box(PERCENT, width, height, overflow_checks) ==
    LET x_center == U32Half(width)
        y_center == U32Half(height)
        w == ScaledSide(PERCENT, width)
        h == ScaledSide(PERCENT, height)
        xmin == x_center - U32Half(w)
        ymin == y_center - U32Half(h)
        xmax == xmin + w
        ymax == ymin + h
    IN IF overflow_checks /\ ( \/ SubUnderflows(x_center, U32Half(w))
                               \/ SubUnderflows(y_center, U32Half(h))
                               \/ AddOverflows(xmin, w)
                               \/ AddOverflows(ymin, h) )
       THEN BoxPanic
       ELSE BoxOk(xmin, ymin, xmax, ymax)

(***************************************************************************)
(* Paths.  A path is the sequence of its components; a file name is kept   *)
(* as [stem, ext], the parts Path::file_stem and Path::extension return    *)
(* (ext is None for a name without a dot and for a dot-file like ".jpg").  *)
(***************************************************************************)
Name(stem, ext) == [stem |-> stem, ext |-> ext]

\* the component as text
NameStr(n) == IF n.ext = None THEN n.stem ELSE n.stem \o "." \o Unwrap(n.ext)

RECURSIVE JoinPath(_)
\* Path::to_string_lossy of a relative path of valid UTF-8 components
JoinPath(p) ==
    IF Len(p) = 0 THEN ""
    ELSE IF Len(p) = 1 THEN p[1]
    ELSE p[1] \o "/" \o JoinPath(Tail(p))

\* Path::parent: None for the empty path
Parent(p) == IF Len(p) = 0 THEN None ELSE Some(SubSeq(p, 1, Len(p) - 1))

\* Path::strip_prefix
StripPrefix(p, base) ==
    IF Len(base) <= Len(p) /\ SubSeq(p, 1, Len(base)) = base
    THEN Some(SubSeq(p, Len(base) + 1, Len(p)))
    ELSE None

\* directory names that are not valid UTF-8 (OsStr::to_str gives None)
NonUtf8Names == {"caf\\xE9"}

\* OsStr::to_str
to_str(name) == IF name \in NonUtf8Names THEN None ELSE Some(name)

\* str::to_lowercase on the extensions of the model
to_lowercase(s) ==
    CASE s = "JPEG" -> "jpeg"
      [] s = "JPG" -> "jpg"
      [] s = "Png" -> "png"
      [] s = "BMP" -> "bmp"
      [] s = "TXT" -> "txt"
      [] OTHER -> s

SUPPORTED_EXTENSIONS == <<"jpg", "jpeg", "png", "bmp">>

\* is_supported_image without the to_lowercase
is_supported_image_CaseSensitive(n) ==
    IF n.ext = None THEN FALSE
    ELSE \E i \in DOMAIN SUPPORTED_EXTENSIONS : SUPPORTED_EXTENSIONS[i] = Unwrap(n.ext)

\* is_supported_image, on a file name
is_supported_image(n) ==
    IF n.ext = None THEN FALSE
    ELSE \E i \in DOMAIN SUPPORTED_EXTENSIONS :
            SUPPORTED_EXTENSIONS[i] = to_lowercase(Unwrap(n.ext))

\* get_base_dir taking ancestors().nth(2)
get_base_dir_Grandparent(filename) ==
    IF IsSome(Parent(filename)) /\ IsSome(Parent(Unwrap(Parent(filename))))
    THEN Unwrap(Parent(Unwrap(Parent(filename))))
    ELSE <<>>

\* get_base_dir: ancestors().nth(1), or "" when the path has no parent
get_base_dir(filename) ==
    IF IsSome(Parent(filename)) THEN Unwrap(Parent(filename)) ELSE <<>>

\* get_relative_filename: strip_prefix(base_dir), or the path itself
get_relative_filename(filename, base_dir) ==
    IF IsSome(StripPrefix(filename, base_dir))
    THEN Unwrap(StripPrefix(filename, base_dir))
    ELSE filename

(***************************************************************************)
(* LabelClassification: the groups tanks and lavs, each a class name and a *)
(* list of raw labels.                                                     *)
(***************************************************************************)
LabelGroup(class, labels) == [class |-> class, labels |-> labels]

LabelClassification(tanks, lavs) == [tanks |-> tanks, lavs |-> lavs]

\* Vec::contains
Contains(vec, x) == \E i \in DOMAIN vec : vec[i] = x

RECURSIVE FirstMatch(_, _)
\* the for loop of get_class over the remaining groups
FirstMatch(groups, label) ==
    IF Len(groups) = 0 THEN None
    ELSE IF Contains(Head(groups).labels, label) THEN Some(Head(groups).class)
    ELSE FirstMatch(Tail(groups), label)

\* get_class scanning [&self.lavs, &self.tanks]
get_class_LavsFirst(self, label) == FirstMatch(<<self.lavs, self.tanks>>, label)

\* LabelClassification::get_class
get_class(self, label) == FirstMatch(<<self.tanks, self.lavs>>, label)

(***************************************************************************)
(* Results and errors                                                      *)
(***************************************************************************)
Ok(v) == <<"Ok", v>>

Err(e) == <<"Err", e>>

IsOk(r) == r[1] = "Ok"

IsErr(r) == r[1] = "Err"

(***************************************************************************)
(* Bounds and input sets                                                   *)
(***************************************************************************)
\* label directories under the root
MaxDirs == 2

\* detections handed to export when it is exercised on its own
MaxLen == 3

\* labels per group in the tables get_class is exercised on
MaxLabels == 2

\* successive calls of export on the same data
MaxCalls == 2

\* sides 1..MaxDim, and the same offsets above 2^24 and 2^25
MaxDim == 6

\* coverage percents 0..MaxPercent
MaxPercent == 200

\* const PERCENT of the call in export
EXPORT_PERCENT == 80

HEADER == <<"filename", "width", "height", "class", "xmin", "ymin", "xmax", "ymax">>

\* sequences over S of length at most n
SeqsUpTo(S, n) == UNION {[1..k -> S] : k \in 0..n}

\* a directory entry that is a file (or, with kind "dir", a nested directory);
\* image is the size image::open would decode, None when it cannot
File(stem, ext, image) == [name |-> Name(stem, ext), kind |-> "file", image |-> image]

NestedDir(stem, ext) == [name |-> Name(stem, ext), kind |-> "dir", image |-> None]

Img(w, h) == Some(<<w, h>>)

\* what a label directory may hold, in the order read_dir yields it
DirListings ==
    { <<>>,
      <<File("a", Some("jpg"), Img(100, 100)), File("b", Some("png"), Img(50, 60))>>,
      <<File("b", Some("png"), Img(50, 60)), File("a", Some("jpg"), Img(100, 100))>>,
      <<File("c", Some("bmp"), Img(10, 10))>>,
      <<File("d", Some("JPEG"), Img(640, 480)), File("notes", Some("txt"), None),
        File(".jpg", None, Img(3, 3)), NestedDir("sub", Some("png"))>>,
      <<File("bad", Some("jpg"), None), File("a", Some("jpg"), Img(100, 100))>>,
      <<File("a", Some("jpg"), Img(100, 100)), File("bad", Some("Png"), None)>> }

DirNames == {"t-80", "unknown"} \cup NonUtf8Names

\* a first-level directory; listable is FALSE when read_dir on it fails
LabelDir(name, listable, listing) ==
    [name |-> name, kind |-> "dir", listable |-> listable, listing |-> listing]

LabelDirs ==
    {LabelDir(n, TRUE, l) : n \in DirNames, l \in DirListings}
        \cup {LabelDir(n, FALSE, <<>>) : n \in DirNames}

\* a top-level entry that is not a directory
TopFile == [name |-> "readme.jpg", kind |-> "file", listable |-> FALSE, listing |-> <<>>]

\* root listings: at most MaxDirs label directories of distinct names, in the
\* order read_dir yields them, with or without a plain file before them
RootListings ==
    LET ds == {q \in SeqsUpTo(LabelDirs, MaxDirs) :
                  \A i, j \in DOMAIN q : i # j => q[i].name # q[j].name}
    IN ds \cup {<<TopFile>> \o q : q \in ds}

\* filesystem snapshots; root_ok is FALSE when read_dir on the root fails
Snapshots ==
    {[root_ok |-> TRUE, root |-> r] : r \in RootListings}
        \cup {[root_ok |-> FALSE, root |-> <<>>]}

\* the table main is run with (label_classification2.toml is not among the sources)
TableC7 == LabelClassification(LabelGroup("tank", <<"t-80", "t-90">>),
                               LabelGroup("lav", <<"btr-70">>))

TableDup == LabelClassification(LabelGroup("tank", <<"t-80">>),
                                LabelGroup("lav", <<"t-80", "btr-70">>))

TableCase == LabelClassification(LabelGroup("tank", <<"T-80">>),
                                 LabelGroup("lav", <<"t-80">>))

\* tables export is exercised on
ExportTables == {TableC7, TableDup, TableCase}

RawLabels == {"t-80", "T-80", "t-90", "btr-70"}

\* every table with at most MaxLabels labels per group
AllTables ==
    {LabelClassification(LabelGroup("tank", a), LabelGroup("lav", b)) :
        a \in SeqsUpTo(RawLabels, MaxLabels), b \in SeqsUpTo(RawLabels, MaxLabels)}

ObjectDetection(filename, width, height, class) ==
    [filename |-> filename, width |-> width, height |-> height, class |-> class]

\* detections export is exercised on
Detections ==
    { ObjectDetection(<<"images", "t-80", "a.jpg">>, 100, 100, "t-80"),
      ObjectDetection(<<"images", "t-80", "b.png">>, 50, 60, "t-80"),
      ObjectDetection(<<"images", "unknown", "c.bmp">>, 10, 10, "unknown"),
      ObjectDetection(<<"data", "images", "btr-70", "d.JPEG">>, 640, 480, "btr-70"),
      ObjectDetection(<<"e.jpg">>, 1, 1, "T-80"),
      ObjectDetection(<<"images", "t-90", "f.bmp">>, 2 ^ 24 + 3, 2 ^ 25 + 2, "t-90") }

\* sides calculate_bounding_box is exercised on
Dims == (1..MaxDim) \cup {2 ^ 24 + k : k \in 0..MaxDim} \cup {2 ^ 25 + k : k \in 0..MaxDim}

\* tensorflow.csv: whether it exists, and its records
CsvFile(rows) == [exists |-> TRUE, rows |-> rows]

NoFile == [exists |-> FALSE, rows |-> <<>>]

\* the file before the run: absent, or left by an earlier run
OldCsv == CsvFile(<<HEADER, <<"old.jpg", "1", "1", "tank", "0", "0", "0", "0">>>>)

(***************************************************************************)
(* State                                                                   *)
(***************************************************************************)
VARIABLES
    root,          \* main: dir, the root path argument
    fs,            \* the filesystem snapshot under the root
    classifier,    \* main: classifier, the parsed table
    csv_before,    \* tensorflow.csv on disk when the run starts
    csv_file,      \* tensorflow.csv on disk
    pc,            \* position of main (or of export's caller)
    dirs,          \* traverse_images: dirs
    workers,       \* traverse_images: one closure call per element of dirs
    saved_error,   \* the par_iter collect's first error, None when none yet
    result,        \* main: result, the detections
    writer,        \* export: records buffered in the csv writer
    idx,           \* export: position of the for loop in data
    stdout,        \* lines printed by export and print_unique_classes: <<text, value>>
    export_ret,    \* value the last call of export returned, None before
    calls,         \* calls of export so far
    csv_after,     \* at each return of export: its value and tensorflow.csv
    ret,           \* value main returned, None while running
    bb,            \* calculate_bounding_box exercised alone: arguments
    bb_out,        \*   and outcome, None before the call
    cl_label,      \* get_class exercised alone: label
    cl_out         \*   and outcome, None before the call

vars == <<root, fs, classifier, csv_before, csv_file, pc, dirs, workers, saved_error,
          result, writer, idx, stdout, export_ret, calls, csv_after, ret,
          bb, bb_out, cl_label, cl_out>>

pureVars == <<bb, bb_out, cl_label, cl_out>>

envVars == <<root, fs, classifier, csv_before>>

traverseVars == <<dirs, workers, saved_error>>

exportVars == <<writer, idx, export_ret, calls, csv_after>>

(***************************************************************************)
(* traverse_images                                                         *)
(***************************************************************************)
Idle == [st |-> "idle", pos |-> 0, acc |-> <<>>, res |-> None]

\* extract_class: the name of the parent directory, as a String
extract_class(path) ==
    IF ~IsSome(Parent(path)) THEN None
    ELSE LET parent == Unwrap(Parent(path))
         IN IF Len(parent) = 0 THEN None ELSE to_str(parent[Len(parent)])

\* image_size
image_size(entry) == IF IsSome(entry.image) THEN Ok(Unwrap(entry.image)) ELSE Err("ImageError")

\* the filter on line 83
Qualifies(entry) == entry.kind = "file" /\ is_supported_image(entry.name)

\* the closure on lines 87-97, for one qualifying entry of directory d
ProcessFile(d, entry) ==
    LET path == root \o <<d.name, NameStr(entry.name)>>
        class == extract_class(path)
    IN IF ~IsSome(class) THEN Err("Class not found")
       ELSE IF IsErr(image_size(entry)) THEN image_size(entry)
       ELSE Ok(ObjectDetection(path, Unwrap(entry.image)[1], Unwrap(entry.image)[2],
                               Unwrap(class)))

\* a worker that has consumed its listing returns Ok(detections)
Settle(d, w) ==
    IF w.st = "running" /\ w.pos > Len(d.listing)
    THEN [w EXCEPT !.st = "done", !.res = Ok(w.acc)]
    ELSE w

\* the collect on line 102 keeps the first error it is handed
Save(r) == IF saved_error = None /\ IsErr(r) THEN r ELSE saved_error

\* lines 71-74: list the root, keep the directories, hand them to the pool
TraverseStart ==
    /\ pc = "main"
    /\ IF fs.root_ok
       THEN /\ dirs' = SelectSeq(fs.root, LAMBDA e : e.kind = "dir")
            /\ workers' = [i \in 1..Len(dirs') |-> Idle]
            /\ pc' = "traverse"
            /\ ret' = ret
       ELSE /\ ret' = Err("read_dir")
            /\ pc' = "failed"
            /\ UNCHANGED <<dirs, workers>>
    /\ UNCHANGED <<envVars, csv_file, saved_error, result, exportVars, stdout, pureVars>>

\* line 81: a pool thread picks up directory i and lists it
WorkerStart(i) ==
    /\ pc = "traverse"
    /\ i \in DOMAIN workers
    /\ workers[i].st = "idle"
    /\ LET d == dirs[i]
           w == IF d.listable
                THEN Settle(d, [workers[i] EXCEPT !.st = "running", !.pos = 1])
                ELSE [workers[i] EXCEPT !.st = "done", !.res = Err("read_dir")]
       IN /\ workers' = [workers EXCEPT ![i] = w]
          /\ saved_error' = IF w.st = "done" THEN Save(w.res) ELSE saved_error
    /\ UNCHANGED <<envVars, csv_file, pc, dirs, result, exportVars, stdout, ret, pureVars>>

\* lines 83-98: the thread handles the next entry of its directory
WorkerStep(i) ==
    /\ pc = "traverse"
    /\ i \in DOMAIN workers
    /\ workers[i].st = "running"
    /\ LET d == dirs[i]
           w0 == workers[i]
           entry == d.listing[w0.pos]
           r == ProcessFile(d, entry)
           w == IF ~Qualifies(entry) THEN Settle(d, [w0 EXCEPT !.pos = @ + 1])
                ELSE IF IsErr(r) THEN [w0 EXCEPT !.st = "done", !.res = r]
                ELSE Settle(d, [w0 EXCEPT !.pos = @ + 1, !.acc = Append(@, r[2])])
       IN /\ workers' = [workers EXCEPT ![i] = w]
          /\ saved_error' = IF w.st = "done" THEN Save(w.res) ELSE saved_error
    /\ UNCHANGED <<envVars, csv_file, pc, dirs, result, exportVars, stdout, ret, pureVars>>

\* once an error is saved the pool may drop directories it has not started
WorkerSkip(i) ==
    /\ pc = "traverse"
    /\ i \in DOMAIN workers
    /\ workers[i].st = "idle"
    /\ saved_error # None
    /\ workers' = [workers EXCEPT ![i] = [@ EXCEPT !.st = "skipped"]]
    /\ UNCHANGED <<envVars, csv_file, pc, dirs, saved_error, result, exportVars, stdout,
                   ret, pureVars>>

RECURSIVE Flatten(_)
\* line 105
Flatten(vs) == IF Len(vs) = 0 THEN <<>> ELSE Head(vs) \o Flatten(Tail(vs))

\* the join keeping what succeeded and dropping the errors
TraverseJoin_Lenient ==
    /\ pc = "traverse"
    /\ \A i \in DOMAIN workers : workers[i].st \in {"done", "skipped"}
    /\ result' = Flatten([i \in DOMAIN workers |->
                             IF workers[i].st = "done" /\ IsOk(workers[i].res)
                             THEN workers[i].res[2] ELSE <<>>])
    /\ pc' = "export"
    /\ UNCHANGED <<envVars, csv_file, traverseVars, exportVars, stdout, ret, pureVars>>

\* lines 102-107, and the ? on line 44: the join of the pool
TraverseJoin ==
    /\ pc = "traverse"
    /\ \A i \in DOMAIN workers : workers[i].st \in {"done", "skipped"}
    /\ IF saved_error # None
       THEN /\ ret' = saved_error
            /\ pc' = "failed"
            /\ result' = result
       ELSE /\ result' = Flatten([i \in DOMAIN workers |-> workers[i].res[2]])
            /\ pc' = "export"
            /\ ret' = ret
    /\ UNCHANGED <<envVars, csv_file, traverseVars, exportVars, stdout, pureVars>>

(***************************************************************************)
(* export.  The csv writer buffers the records and writes them to the file *)
(* when it is dropped, at return or while a panic unwinds; the file is     *)
(* created, or truncated, when the writer is opened.                       *)
(***************************************************************************)
\* the record with the raw label in the class column
Row_RawLabel(object, class, box) ==
    <<JoinPath(get_relative_filename(object.filename, get_base_dir(object.filename))),
      U32ToString(object.width), U32ToString(object.height), object.class,
      U32ToString(box[1]), U32ToString(box[2]), U32ToString(box[3]), U32ToString(box[4])>>

\* lines 178-192: the record of one detection
Row(object, class, box) ==
    <<JoinPath(get_relative_filename(object.filename, get_base_dir(object.filename))),
      U32ToString(object.width), U32ToString(object.height), class,
      U32ToString(box[1]), U32ToString(box[2]), U32ToString(box[3]), U32ToString(box[4])>>

\* the file opened for appending: created when absent, kept when it exists
OpenAppend(file) == CsvFile(file.rows)

\* csv::Writer::from_path: the file is created, or emptied when it exists
OpenTruncate(file) == CsvFile(<<>>)

\* the writer's drop: the buffered records reach the file
Flush(file, buffered) == CsvFile(file.rows \o buffered)

\* lines 169-174: open the writer (this may fail) and buffer the header
ExportOpen ==
    /\ pc = "export"
    /\ calls' = calls + 1
    /\ \/ /\ csv_file' = OpenTruncate(csv_file)
          /\ writer' = <<HEADER>>
          /\ idx' = 1
          /\ pc' = "export_rows"
          /\ UNCHANGED <<export_ret, csv_after>>
       \/ /\ export_ret' = Err("create")
          /\ csv_after' = Append(csv_after, [ret |-> export_ret', file |-> csv_file])
          /\ pc' = "export_returned"
          /\ UNCHANGED <<csv_file, writer, idx>>
    /\ UNCHANGED <<envVars, traverseVars, result, stdout, ret, pureVars>>

\* lines 177-196: one iteration of the for loop
ExportRow ==
    /\ pc = "export_rows"
    /\ idx <= Len(result)
    /\ \E overflow_checks \in BOOLEAN :
       LET object == result[idx]
           b == calculate_bounding_box(EXPORT_PERCENT, object.width, object.height,
                                       overflow_checks)
           class == get_class(classifier, object.class)
       IN IF b.panicked
          THEN /\ csv_file' = Flush(csv_file, writer)
               /\ writer' = <<>>
               /\ pc' = "panicked"
               /\ UNCHANGED <<idx, stdout>>
          ELSE /\ writer' = IF IsSome(class)
                            THEN Append(writer, Row(object, Unwrap(class), b.box))
                            ELSE writer
               /\ stdout' = IF IsSome(class) THEN stdout
                            ELSE Append(stdout, <<"Skipping: ", object.class>>)
               /\ idx' = idx + 1
               /\ UNCHANGED <<csv_file, pc>>
    /\ UNCHANGED <<envVars, traverseVars, result, export_ret, calls, csv_after, ret, pureVars>>

\* line 198: the loop is over, the writer is dropped, export returns Ok(())
ExportReturn ==
    /\ pc = "export_rows"
    /\ idx > Len(result)
    /\ csv_file' = Flush(csv_file, writer)
    /\ writer' = <<>>
    /\ export_ret' = Ok(<<>>)
    /\ csv_after' = Append(csv_after, [ret |-> export_ret', file |-> csv_file'])
    /\ pc' = "export_returned"
    /\ UNCHANGED <<envVars, traverseVars, result, idx, stdout, calls, ret, pureVars>>

\* a caller that exports the same data again
ExportAgain ==
    /\ pc = "export_returned"
    /\ calls < MaxCalls
    /\ pc' = "export"
    /\ UNCHANGED <<envVars, csv_file, traverseVars, result, exportVars, stdout, ret, pureVars>>

RECURSIVE Unique(_, _)
\* Itertools::unique: first occurrences, in order
Unique(q, seen) ==
    IF Len(q) = 0 THEN <<>>
    ELSE IF Head(q) \in seen THEN Unique(Tail(q), seen)
    ELSE <<Head(q)>> \o Unique(Tail(q), seen \cup {Head(q)})

\* print_unique_classes (the two timing lines main prints after it are not kept)
print_unique_classes(data) ==
    LET classes == Unique([i \in DOMAIN data |-> data[i].class], {})
    IN <<<<"Unique classes: ", classes>>, <<"Unique len: ", Len(classes)>>>>

\* lines 49-66: the ? on export, then the summary, then Ok(())
MainAfterExport ==
    /\ pc = "export_returned"
    /\ IF IsErr(export_ret)
       THEN /\ ret' = export_ret
            /\ pc' = "failed"
            /\ stdout' = stdout
       ELSE /\ stdout' = stdout \o print_unique_classes(result)
            /\ ret' = Ok(<<>>)
            /\ pc' = "done"
    /\ UNCHANGED <<envVars, csv_file, traverseVars, result, exportVars, pureVars>>

(***************************************************************************)
(* The pure functions exercised alone                                      *)
(***************************************************************************)
BoundingBoxCall ==
    /\ bb_out = None
    /\ \E overflow_checks \in BOOLEAN :
          bb_out' = Some(calculate_bounding_box(bb.percent, bb.width, bb.height,
                                                overflow_checks))
    /\ UNCHANGED <<envVars, csv_file, pc, traverseVars, result, exportVars, stdout, ret,
                   bb, cl_label, cl_out>>

GetClassCall ==
    /\ cl_out = None
    /\ cl_out' = Some(get_class(classifier, cl_label))
    /\ UNCHANGED <<envVars, csv_file, pc, traverseVars, result, exportVars, stdout, ret,
                   bb, bb_out, cl_label>>

(***************************************************************************)
(* Specifications                                                          *)
(***************************************************************************)
IdleRest ==
    /\ dirs = <<>>
    /\ workers = <<>>
    /\ saved_error = None
    /\ writer = <<>>
    /\ idx = 0
    /\ stdout = <<>>
    /\ export_ret = None
    /\ calls = 0
    /\ csv_after = <<>>
    /\ ret = None

NoPure ==
    /\ bb = [percent |-> EXPORT_PERCENT, width |-> 1, height |-> 1]
    /\ bb_out = None
    /\ cl_label = ""
    /\ cl_out = None

\* main, from the start of traverse_images
Init ==
    /\ root = <<"images">>
    /\ fs \in Snapshots
    /\ classifier = TableC7
    /\ csv_before \in {NoFile, OldCsv}
    /\ csv_file = csv_before
    /\ pc = "main"
    /\ result = <<>>
    /\ IdleRest
    /\ NoPure

Next ==
    \/ TraverseStart
    \/ \E i \in 1..MaxDirs : WorkerStart(i)
    \/ \E i \in 1..MaxDirs : WorkerStep(i)
    \/ \E i \in 1..MaxDirs : WorkerSkip(i)
    \/ TraverseJoin
    \/ ExportOpen
    \/ ExportRow
    \/ ExportReturn
    \/ MainAfterExport

Spec == Init /\ [][Next]_vars

EmptySnapshot == [root_ok |-> TRUE, root |-> <<>>]

\* export called, and called again, on any detection sequence and table
InitExport ==
    /\ root = <<"images">>
    /\ fs = EmptySnapshot
    /\ classifier \in ExportTables
    /\ csv_before \in {NoFile, OldCsv}
    /\ csv_file = csv_before
    /\ pc = "export"
    /\ result \in SeqsUpTo(Detections, MaxLen)
    /\ IdleRest
    /\ NoPure

NextExport ==
    \/ ExportOpen
    \/ ExportRow
    \/ ExportReturn
    \/ ExportAgain

SpecExport == InitExport /\ [][NextExport]_vars

\* calculate_bounding_box on any percent and sides
InitBox ==
    /\ root = <<"images">>
    /\ fs = EmptySnapshot
    /\ classifier = TableC7
    /\ csv_before = NoFile
    /\ csv_file = csv_before
    /\ pc = "box"
    /\ result = <<>>
    /\ IdleRest
    /\ bb \in [percent : 0..MaxPercent, width : Dims, height : Dims]
    /\ bb_out = None
    /\ cl_label = ""
    /\ cl_out = None

NextBox == BoundingBoxCall

SpecBox == InitBox /\ [][NextBox]_vars

\* get_class on any label and table
InitClass ==
    /\ root = <<"images">>
    /\ fs = EmptySnapshot
    /\ classifier \in AllTables
    /\ csv_before = NoFile
    /\ csv_file = csv_before
    /\ pc = "class"
    /\ result = <<>>
    /\ IdleRest
    /\ bb = [percent |-> EXPORT_PERCENT, width |-> 1, height |-> 1]
    /\ bb_out = None
    /\ cl_label \in RawLabels \cup {"unknown"}
    /\ cl_out = None

NextClass == GetClassCall

SpecClass == InitClass /\ [][NextClass]_vars

(***************************************************************************)
(* Properties                                                              *)
(***************************************************************************)
Range(q) == {q[i] : i \in DOMAIN q}

\* the detections of data whose raw label the table maps, in order
Classified(data, table) == SelectSeq(data, LAMBDA d : IsSome(get_class(table, d.class)))

ExportReturnedOk == pc = "export_returned" /\ IsOk(export_ret)

\* C1: when export returns Ok the file holds the header row and then, for each
\* detection whose raw label get_class maps, in input order, one row carrying
\* that detection's size and the class get_class returns; unmapped labels add
\* no row, only a failure to create the file makes export fail, and export
\* never panics.
C1_ExportWritesClassifiedRows ==
    /\ pc # "panicked"
    /\ (pc = "export_returned" /\ IsErr(export_ret)) => export_ret = Err("create")
    /\ ExportReturnedOk =>
          LET kept == Classified(result, classifier)
              rows == csv_file.rows
          IN /\ csv_file.exists
             /\ Len(rows) = 1 + Len(kept)
             /\ rows[1] = <<"filename", "width", "height", "class",
                            "xmin", "ymin", "xmax", "ymax">>
             /\ \A k \in DOMAIN kept :
                   /\ Len(rows[k + 1]) = 8
                   /\ rows[k + 1][2] = ToString(kept[k].width)
                   /\ rows[k + 1][3] = ToString(kept[k].height)
                   /\ rows[k + 1][4] = Unwrap(get_class(classifier, kept[k].class))

\* export has returned Ok on a sequence holding a mapped and an unmapped label
C1_Witness ==
    /\ ExportReturnedOk
    /\ Len(result) = 3
    /\ Len(csv_file.rows) = 3
    /\ \E i \in DOMAIN result : ~IsSome(get_class(classifier, result[i].class))

\* C2: get_class returns the class of tanks when the tanks labels hold the
\* label exactly, else the class of lavs when the lavs labels hold it exactly,
\* else None; a label in both groups resolves to tanks.
C2_GetClassFirstGroupWins ==
    IsSome(cl_out) =>
        Unwrap(cl_out) =
            IF cl_label \in Range(classifier.tanks.labels) THEN Some(classifier.tanks.class)
            ELSE IF cl_label \in Range(classifier.lavs.labels) THEN Some(classifier.lavs.class)
            ELSE None

\* get_class has answered for a label that both groups list
C2_Witness ==
    /\ IsSome(cl_out)
    /\ cl_label \in Range(classifier.tanks.labels)
    /\ cl_label \in Range(classifier.lavs.labels)
    /\ Unwrap(cl_out) = Some("tank")

\* traverse_images has returned Ok
TraverseOk ==
    \/ pc \in {"export", "export_rows", "export_returned", "done", "panicked"}
    \/ pc = "failed" /\ IsErr(export_ret)

\* the extensions of the model that are supported, in any case
SupportedAnyCase == {"jpg", "jpeg", "png", "bmp", "JPG", "JPEG", "Png", "BMP"}

\* the positions <<i, j>> of the snapshot's images: regular files with a
\* supported extension directly inside a first-level directory
ExpectedFiles ==
    UNION { { <<i, j>> : j \in { j \in DOMAIN fs.root[i].listing :
                                  /\ fs.root[i].listing[j].kind = "file"
                                  /\ IsSome(fs.root[i].listing[j].name.ext)
                                  /\ Unwrap(fs.root[i].listing[j].name.ext)
                                        \in SupportedAnyCase } } :
            i \in { i \in DOMAIN fs.root : fs.root[i].kind = "dir" } }

\* the records the snapshot calls for, one per image
ExpectedDetections ==
    { [filename |-> root \o <<fs.root[ij[1]].name, NameStr(fs.root[ij[1]].listing[ij[2]].name)>>,
       width |-> Unwrap(fs.root[ij[1]].listing[ij[2]].image)[1],
       height |-> Unwrap(fs.root[ij[1]].listing[ij[2]].image)[2],
       class |-> fs.root[ij[1]].name] : ij \in ExpectedFiles }

\* C3: whenever traverse_images returns Ok, under every interleaving of the
\* workers, every image of the snapshot was decoded and the detections are
\* exactly the records the snapshot calls for, each once; and a listable root
\* without directories never fails traversal.
C3_TraverseExactlyTheImages ==
    /\ TraverseOk => /\ \A ij \in ExpectedFiles :
                            IsSome(fs.root[ij[1]].listing[ij[2]].image)
                     /\ Range(result) = ExpectedDetections
                     /\ Len(result) = Cardinality(ExpectedDetections)
    /\ (fs.root_ok /\ \A i \in DOMAIN fs.root : fs.root[i].kind # "dir")
          => ~(pc = "failed" /\ export_ret = None)

\* two directories were walked, three images found, other entries passed over
C3_Witness ==
    /\ pc = "export"
    /\ Len(dirs) = 2
    /\ Len(fs.root) = 3
    /\ Len(result) = 3
    /\ \E i \in DOMAIN dirs : Len(dirs[i].listing) = 4

\* some label directory cannot be listed, or holds a qualifying file whose
\* class cannot be resolved or whose size cannot be read
Faulty ==
    \E i \in DOMAIN fs.root :
        /\ fs.root[i].kind = "dir"
        /\ \/ ~fs.root[i].listable
           \/ \E j \in DOMAIN fs.root[i].listing :
                 /\ fs.root[i].listing[j].kind = "file"
                 /\ IsSome(fs.root[i].listing[j].name.ext)
                 /\ Unwrap(fs.root[i].listing[j].name.ext) \in SupportedAnyCase
                 /\ \/ fs.root[i].name \in NonUtf8Names
                    \/ ~IsSome(fs.root[i].listing[j].image)

\* C4: with such a fault in the snapshot the run never gets past traversal:
\* no detection list is handed on, export is never called, tensorflow.csv
\* stays as it was, and when main has returned it has returned an error.
C4_FaultAbortsBeforeExport ==
    Faulty =>
        /\ pc \in {"main", "traverse", "failed"}
        /\ result = <<>>
        /\ calls = 0
        /\ writer = <<>>
        /\ csv_file = csv_before
        /\ pc = "failed" => IsErr(ret)

\* main has failed although another directory was processed successfully and
\* an earlier tensorflow.csv exists
C4_Witness ==
    /\ Faulty
    /\ pc = "failed"
    /\ csv_file = OldCsv
    /\ \E i \in DOMAIN workers :
          /\ workers[i].st = "done"
          /\ IsOk(workers[i].res)
          /\ Len(workers[i].res[2]) = 2

\* the box of the last call, once it has returned one
BoxOut == Unwrap(bb_out).box

\* C5: for percent 0..100 and sides of at least 2 the call returns a box with
\* xmin <= xmax <= width and ymin <= ymax <= height whose margins differ by at
\* most one on each axis.
C5_BoxInsideAndCentred ==
    (IsSome(bb_out) /\ bb.percent <= 100 /\ bb.width >= 2 /\ bb.height >= 2) =>
        /\ ~Unwrap(bb_out).panicked
        /\ U32Le(BoxOut[1], BoxOut[3]) /\ U32Le(BoxOut[3], bb.width)
        /\ U32Le(BoxOut[2], BoxOut[4]) /\ U32Le(BoxOut[4], bb.height)
        /\ (bb.width - BoxOut[3]) - BoxOut[1] \in {0 - 1, 0, 1}
        /\ (bb.height - BoxOut[4]) - BoxOut[2] \in {0 - 1, 0, 1}

\* the last component of a path
FileNameOf(path) == path[Len(path)]

\* C6: when export returns Ok the filename column of each row is the file
\* name of its detection alone: the path with everything up to and including
\* the immediate parent directory removed, so neither the whole path nor the
\* label directory followed by the name.
C6_FilenameIsUnderLabelDir ==
    ExportReturnedOk =>
        LET kept == Classified(result, classifier)
        IN \A k \in DOMAIN kept :
              /\ csv_file.rows[k + 1][1] = FileNameOf(kept[k].filename)
              /\ Len(kept[k].filename) >= 2 =>
                    /\ csv_file.rows[k + 1][1] # JoinPath(kept[k].filename)
                    /\ csv_file.rows[k + 1][1] #
                          JoinPath(SubSeq(kept[k].filename, Len(kept[k].filename) - 1,
                                          Len(kept[k].filename)))

\* a row was exported for a detection found three directories deep
C6_Witness ==
    /\ ExportReturnedOk
    /\ Len(csv_file.rows) >= 2
    /\ \E i \in DOMAIN result :
          /\ Len(result[i].filename) = 4
          /\ IsSome(get_class(classifier, result[i].class))

\* the end-to-end snapshot: images/t-80/{a.jpg 100x100, b.png 50x60} and
\* images/unknown/c.bmp 10x10, with the table tank: t-80, t-90; lav: btr-70
ScenarioC7 ==
    /\ root = <<"images">>
    /\ fs.root_ok
    /\ classifier = LabelClassification(LabelGroup("tank", <<"t-80", "t-90">>),
                                        LabelGroup("lav", <<"btr-70">>))
    /\ {e.name : e \in {x \in Range(fs.root) : x.kind = "dir"}} = {"t-80", "unknown"}
    /\ \A i \in DOMAIN fs.root :
          /\ fs.root[i].name = "t-80" =>
                /\ fs.root[i].listable
                /\ Len(fs.root[i].listing) = 2
                /\ Range(fs.root[i].listing) =
                      {File("a", Some("jpg"), Img(100, 100)), File("b", Some("png"), Img(50, 60))}
          /\ fs.root[i].name = "unknown" =>
                /\ fs.root[i].listable
                /\ fs.root[i].listing = <<File("c", Some("bmp"), Img(10, 10))>>

\* the raw labels export reported as skipped
SkippedLabels == {stdout[i][2] : i \in {j \in DOMAIN stdout : stdout[j][1] = "Skipping: "}}

\* C7 as stated: the data rows are t-80/a.jpg,100,100,tank,10,10,90,90 and
\* t-80/b.png,50,60,tank,5,6,45,54, and the only skipped label is unknown.
C7_AsStated ==
    (ScenarioC7 /\ pc = "done") =>
        /\ Len(csv_file.rows) = 3
        /\ csv_file.rows[1] = HEADER
        /\ {csv_file.rows[2], csv_file.rows[3]} =
              {<<"t-80/a.jpg", "100", "100", "tank", "10", "10", "90", "90">>,
               <<"t-80/b.png", "50", "60", "tank", "5", "6", "45", "54">>}
        /\ SkippedLabels = {"unknown"}

\* C7 amended: the data rows are a.jpg,100,100,tank,10,10,90,90 and
\* b.png,50,60,tank,5,6,45,54, in the order the t-80 directory lists the two
\* files; the unknown/c.bmp row is omitted and the only skipped label is
\* unknown.
C7_EndToEnd ==
    (ScenarioC7 /\ pc = "done") =>
        LET rowA == <<"a.jpg", "100", "100", "tank", "10", "10", "90", "90">>
            rowB == <<"b.png", "50", "60", "tank", "5", "6", "45", "54">>
            t80 == CHOOSE e \in Range(fs.root) : e.name = "t-80"
        IN /\ csv_file.rows =
                 IF t80.listing[1].name.stem = "a"
                 THEN <<<<"filename", "width", "height", "class",
                          "xmin", "ymin", "xmax", "ymax">>, rowA, rowB>>
                 ELSE <<<<"filename", "width", "height", "class",
                          "xmin", "ymin", "xmax", "ymax">>, rowB, rowA>>
           /\ SkippedLabels = {"unknown"}

\* the scenario has run to the end with b.png listed before a.jpg
C7_Witness ==
    /\ ScenarioC7
    /\ pc = "done"
    /\ Len(csv_file.rows) = 3
    /\ csv_file.rows[2][1] = "b.png"

\* C8: for even sides and percent 100 the call returns (0, 0, width, height).
C8_FullCoverageIsWholeImage ==
    (IsSome(bb_out) /\ bb.percent = 100 /\ bb.width % 2 = 0 /\ bb.height % 2 = 0) =>
        /\ ~Unwrap(bb_out).panicked
        /\ BoxOut = <<0, 0, bb.width, bb.height>>

\* C9: once a call of export has returned Ok, every later call on the same
\* detections and table leaves tensorflow.csv as that call left it.
C9_ExportTwiceSameFile ==
    \A k \in DOMAIN csv_after :
        (k >= 2 /\ IsOk(csv_after[k - 1].ret)) => csv_after[k].file = csv_after[k - 1].file

\* export has returned Ok twice over an earlier file, with data rows written
C9_Witness ==
    /\ Len(csv_after) = 2
    /\ IsOk(csv_after[1].ret)
    /\ IsOk(csv_after[2].ret)
    /\ csv_before = OldCsv
    /\ Len(csv_after[2].file.rows) = 3

\* C10: for sides of at least 1 and any percent, neither subtraction goes
\* below zero: the call does not panic and xmin, ymin do not wrap around.
C10_NoUnderflow ==
    (IsSome(bb_out) /\ bb.width >= 1 /\ bb.height >= 1) =>
        /\ ~Unwrap(bb_out).panicked
        /\ BoxOut[1] >= 0
        /\ BoxOut[2] >= 0

====
